---- MODULE Spec2Model ----
(***************************************************************************)
(* The OpenCV image pipeline of ueberzugpp (src/image/opencv.cpp).         *)
(*                                                                         *)
(* An OpencvImage is constructed from a file name, a Dimensions object and *)
(* the in_cache flag.  The constructor decodes the file, applies the EXIF  *)
(* orientation, resizes (writing the resized buffer to the cache), moves   *)
(* the origin of the Dimensions when centering is requested and converts   *)
(* the buffer to the channel layout of the output backend.                 *)
(*                                                                         *)
(* A cv::Mat is modelled as a record                                       *)
(*   [cols, rows, chans, depth, bg, marks]                                 *)
(* where every pixel has the value bg except the pixels listed in marks, a *)
(* function from <<row, col>> (1-based) to pixel values.  A pixel value is *)
(* the sequence of its channel values in storage order.  Geometric         *)
(* operations move the marks, per-pixel operations rewrite bg and every    *)
(* mark.  cv::resize is modelled on solid images (no marks), for which     *)
(* area interpolation returns the same colour at the new size.             *)
(***************************************************************************)
EXTENDS Integers, Sequences, FiniteSets, TLC

VARIABLES
    flags,      \* Flags::instance(): output, scale_factor, no_cache, origin_center, needs_scaling
    opencl,     \* whether cv::ocl::Context::getDefault() holds a context (process wide)
    fs,         \* the files on disk: file name -> [mat, exif]
    dims,       \* per instance: the Dimensions object handed to the constructor
    pc,         \* per instance: position inside the constructor
    path,       \* per instance: OpencvImage::path
    in_cache,   \* per instance: OpencvImage::in_cache
    image,      \* per instance: OpencvImage::image
    uimage,     \* per instance: OpencvImage::uimage
    size,       \* per instance: OpencvImage::_size
    hist        \* per instance: history of the run (library calls, inputs), for stating properties

vars == <<flags, opencl, fs, dims, pc, path, in_cache, image, uimage, size, hist>>

\* ---------------------------------------------------------------- bounds

\* largest scale factor drawn for Flags::scale_factor
MaxScale == 4

\* the pipeline instances that run concurrently
Inst == {1, 2}

\* the source files
Paths == {"a", "b"}

\* ---------------------------------------------------------------- cv::Mat

NoMarks == [rc \in {} |-> <<>>]

\* a default-constructed cv::Mat: empty() is true
EmptyMat == [cols |-> 0, rows |-> 0, chans |-> 1, depth |-> 8, bg |-> <<0>>, marks |-> NoMarks]

Solid(w, h, depth, px) ==
    [cols |-> w, rows |-> h, chans |-> Len(px), depth |-> depth, bg |-> px, marks |-> NoMarks]

empty(mat) == mat.cols = 0 \/ mat.rows = 0

PixelAt(mat, r, c) ==
    IF <<r, c>> \in DOMAIN mat.marks THEN mat.marks[<<r, c>>] ELSE mat.bg

\* the marks of mat moved to the coordinates move[rc]
MoveMarks(mat, move) ==
    LET D == DOMAIN mat.marks
    IN  [n \in {move[rc] : rc \in D} |-> mat.marks[CHOOSE rc \in D : move[rc] = n]]

\* the pixel values that occur in mat
Pixels(mat) == {mat.bg} \cup {mat.marks[rc] : rc \in DOMAIN mat.marks}

\* every pixel px of mat rewritten to conv[px], a pixel of chans channels
MapPixels(mat, conv, chans) ==
    [mat EXCEPT !.bg = conv[@],
                !.marks = [rc \in DOMAIN @ |-> conv[@[rc]]],
                !.chans = chans]

\* cv::flip(src, dst, flipCode): 0 flips around the x axis (vertical flip), a
\* positive code around the y axis (horizontal flip), a negative code around both
cv_flip(mat, flipCode) ==
    LET move == [rc \in DOMAIN mat.marks |->
                    IF flipCode = 0 THEN <<mat.rows + 1 - rc[1], rc[2]>>
                    ELSE IF flipCode > 0 THEN <<rc[1], mat.cols + 1 - rc[2]>>
                    ELSE <<mat.rows + 1 - rc[1], mat.cols + 1 - rc[2]>>]
    IN  [mat EXCEPT !.marks = MoveMarks(mat, move)]

\* cv::rotate(src, dst, rotateCode)
cv_rotate(mat, rotateCode) ==
    LET move == [rc \in DOMAIN mat.marks |->
                    IF rotateCode = "ROTATE_90_CLOCKWISE"
                    THEN <<rc[2], mat.rows + 1 - rc[1]>>
                    ELSE <<mat.cols + 1 - rc[2], rc[1]>>]
    IN  [mat EXCEPT !.cols = mat.rows, !.rows = mat.cols, !.marks = MoveMarks(mat, move)]

\* cv::resize(src, dst, Size(w, h), 0, 0, INTER_AREA): a solid image keeps its
\* colour; resizing to the size the image already has copies it
cv_resize(mat, w, h) ==
    IF w = mat.cols /\ h = mat.rows THEN mat
    ELSE [mat EXCEPT !.cols = w, !.rows = h, !.marks = NoMarks]

\* cv::Mat::convertTo(dst, CV_8U, 1/256) on one 16 bit sample:
\* saturate_cast<uchar>(cvRound(v / 256)), cvRound rounding half to even
ConvertTo8(v) ==
    LET q == v \div 256
        r == v % 256
        n == IF r > 128 THEN q + 1
             ELSE IF r = 128 THEN q + (q % 2)
             ELSE q
    IN  IF n > 255 THEN 255 ELSE n

\* cv::cvtColor(src, dst, code) on one pixel
cvtColor(px, code) ==
    CASE code = "COLOR_GRAY2BGRA" -> <<px[1], px[1], px[1], 255>>
      [] code = "COLOR_BGR2BGRA"  -> <<px[1], px[2], px[3], 255>>
      [] code = "COLOR_BGRA2RGBA" -> <<px[3], px[2], px[1], px[4]>>
      [] code = "COLOR_BGR2RGB"   -> <<px[3], px[2], px[1]>>
      [] code = "COLOR_BGRA2RGB"  -> <<px[3], px[2], px[1]>>

\* the channel count cv::cvtColor produces for each conversion code
cvtChannels(code) ==
    CASE code = "COLOR_GRAY2BGRA" -> 4
      [] code = "COLOR_BGR2BGRA"  -> 4
      [] code = "COLOR_BGRA2RGBA" -> 4
      [] code = "COLOR_BGR2RGB"   -> 3
      [] code = "COLOR_BGRA2RGB"  -> 3

cv_cvtColor(mat, code) ==
    LET conv == [px \in Pixels(mat) |-> cvtColor(px, code)]
    IN  MapPixels(mat, conv, cvtChannels(code))

\* cv::imread(filename, IMREAD_UNCHANGED): the decoded buffer, empty when the
\* file does not exist or cannot be decoded; the orientation tag is not applied
cv_imread(files, filename) ==
    IF filename \in DOMAIN files THEN files[filename].mat ELSE EmptyMat

\* cv::imwrite(filename, mat): the encoded file holds the pixels and no EXIF
\* orientation tag
cv_imwrite(files, filename, mat) ==
    [f \in DOMAIN files \cup {filename} |->
        IF f = filename THEN [mat |-> mat, exif |-> <<>>] ELSE files[f]]

\* ---------------------------------------------------------------- collaborators

\* util::read_exif_rotation(path): std::optional<int>, <<>> for nullopt
read_exif_rotation(files, filename) ==
    IF filename \in DOMAIN files THEN files[filename].exif ELSE <<>>

\* util::get_cache_file_save_location(path): a deterministic location derived
\* from the source path, distinct for distinct source paths
get_cache_file_save_location(filename) == "cache/" \o filename

\* util::round_up(num_to_round, multiple): the smallest multiple of multiple
\* that is not less than num_to_round
round_up(num_to_round, multiple) ==
    IF multiple = 0 \/ num_to_round % multiple = 0 THEN num_to_round
    ELSE num_to_round + multiple - (num_to_round % multiple)

\* Image::get_new_sizes(max_width, max_height, scaler, scale_factor): the size
\* the Dimensions resolve to, <<0, 0>> when the image keeps its size
get_new_sizes(d) == d.target

\* ---------------------------------------------------------------- OpencvImage

\* floor(q / 2) for the double q = static_cast<double>(num) / den
FloorHalf(num, den) == num \div (2 * den)

\* the premultiplication of process_image on one cv::Vec4b
Premultiply(pix) ==
    <<(pix[1] * pix[4]) \div 255, (pix[2] * pix[4]) \div 255, (pix[3] * pix[4]) \div 255, pix[4]>>

\* the switch of rotate_image with the flip of orientation 3 around one axis
orientation_ops_Flip3OneAxis(value) ==
    CASE value = 2 -> <<"flip 1">>
      [] value = 3 -> <<"flip 0">>
      [] value = 4 -> <<"flip 0">>
      [] value = 5 -> <<"rotate cw", "flip 1">>
      [] value = 6 -> <<"rotate cw">>
      [] value = 7 -> <<"rotate ccw", "flip 1">>
      [] value = 8 -> <<"rotate ccw">>
      [] OTHER -> <<>>

\* the switch of OpencvImage::rotate_image: the library calls made for an
\* orientation value, in order
orientation_ops(value) ==
    CASE value = 2 -> <<"flip 1">>
      [] value = 3 -> <<"flip -1">>
      [] value = 4 -> <<"flip 0">>
      [] value = 5 -> <<"rotate cw", "flip 1">>
      [] value = 6 -> <<"rotate cw">>
      [] value = 7 -> <<"rotate ccw", "flip 1">>
      [] value = 8 -> <<"rotate ccw">>
      [] OTHER -> <<>>

\* one library call of rotate_image applied to the buffer
ApplyOp(mat, op) ==
    CASE op = "flip 1" -> cv_flip(mat, 1)
      [] op = "flip -1" -> cv_flip(mat, -1)
      [] op = "flip 0" -> cv_flip(mat, 0)
      [] op = "rotate cw" -> cv_rotate(mat, "ROTATE_90_CLOCKWISE")
      [] op = "rotate ccw" -> cv_rotate(mat, "ROTATE_90_COUNTERCLOCKWISE")

RECURSIVE ApplyOps(_, _)
ApplyOps(mat, ops) ==
    IF Len(ops) = 0 THEN mat ELSE ApplyOps(ApplyOp(mat, Head(ops)), Tail(ops))

\* OpencvImage::rotate_image: the buffer after the orientation transform and
\* the library calls made
rotate_image(img, files, filename) ==
    LET rotation == read_exif_rotation(files, filename)
        ops == IF Len(rotation) = 0 THEN <<>> ELSE orientation_ops(rotation[1])
    IN  [image |-> ApplyOps(img, ops), ops |-> ops]

\* what OpencvImage::resize_image_helper returns to the model: mat after the
\* call, the files, the library calls made, the cache write attempted (save
\* location and size) and the cache write that succeeded
HelperResult(mat, files, ops, save, wrote) ==
    [mat |-> mat, fs |-> files, ops |-> ops, save |-> save, wrote |-> wrote]

\* the cache file is derived from the source path and the size
resize_image_helper_SizeInLocation(mat, new_width, new_height, filename, files, ok) ==
    LET out == cv_resize(mat, new_width, new_height)
        save_location == get_cache_file_save_location(filename) \o "/" \o ToString(new_width)
                             \o "x" \o ToString(new_height)
        wrote == [loc |-> save_location, w |-> new_width, h |-> new_height]
    IN  IF flags.no_cache THEN HelperResult(out, files, <<"resize">>, <<>>, <<>>)
        ELSE IF ok
        THEN HelperResult(out, cv_imwrite(files, save_location, out), <<"resize", "imwrite">>,
                          <<wrote>>, <<wrote>>)
        ELSE HelperResult(out, files, <<"resize", "imwrite">>, <<wrote>>, <<>>)

\* the buffer is written to the cache after the alpha premultiplication
resize_image_helper_WritePremultiplied(mat, new_width, new_height, filename, files, ok) ==
    LET out == cv_resize(mat, new_width, new_height)
        stored == IF out.chans = 4 /\ out.depth = 8 THEN [out EXCEPT !.bg = Premultiply(@)]
                  ELSE out
        save_location == get_cache_file_save_location(filename)
        wrote == [loc |-> save_location, w |-> new_width, h |-> new_height]
    IN  IF flags.no_cache THEN HelperResult(out, files, <<"resize">>, <<>>, <<>>)
        ELSE IF ok
        THEN HelperResult(out, cv_imwrite(files, save_location, stored), <<"resize", "imwrite">>,
                          <<wrote>>, <<wrote>>)
        ELSE HelperResult(out, files, <<"resize", "imwrite">>, <<wrote>>, <<>>)

\* the resized buffer is kept only when the cache write succeeded
resize_image_helper_KeepOnSuccess(mat, new_width, new_height, filename, files, ok) ==
    LET out == cv_resize(mat, new_width, new_height)
        save_location == get_cache_file_save_location(filename)
        wrote == [loc |-> save_location, w |-> new_width, h |-> new_height]
    IN  IF flags.no_cache THEN HelperResult(out, files, <<"resize">>, <<>>, <<>>)
        ELSE IF ok
        THEN HelperResult(out, cv_imwrite(files, save_location, out), <<"resize", "imwrite">>,
                          <<wrote>>, <<wrote>>)
        ELSE HelperResult(mat, files, <<"resize", "imwrite">>, <<wrote>>, <<>>)

\* OpencvImage::resize_image_helper (ok: cv::imwrite did not throw)
resize_image_helper(mat, new_width, new_height, filename, files, ok) ==
    LET out == cv_resize(mat, new_width, new_height)
        save_location == get_cache_file_save_location(filename)
        wrote == [loc |-> save_location, w |-> new_width, h |-> new_height]
    IN  IF flags.no_cache THEN HelperResult(out, files, <<"resize">>, <<>>, <<>>)
        ELSE IF ok
        THEN HelperResult(out, cv_imwrite(files, save_location, out), <<"resize", "imwrite">>,
                          <<wrote>>, <<wrote>>)
        ELSE HelperResult(out, files, <<"resize", "imwrite">>, <<wrote>>, <<>>)

\* the even sizes are multiples of two, whatever the scale factor
even_sizes_RoundToTwo(curw, curh) == <<round_up(curw, 2), round_up(curh, 2)>>

\* the arguments of the resize_image_helper call that makes the sizes even
even_sizes(curw, curh) ==
    <<round_up(curw, flags.scale_factor), round_up(curh, flags.scale_factor)>>

\* OpencvImage::resize_image when the image does not come from the cache
resize_miss(img, uimg, d, filename, files, ok) ==
    LET skip == [image |-> img, uimage |-> uimg, fs |-> files, ops |-> <<>>,
                 save |-> <<>>, wrote |-> <<>>]
        sizes == get_new_sizes(d)
        new_width == sizes[1]
        new_height == sizes[2]
        curw == img.cols
        curh == img.rows
        rounded == even_sizes(curw, curh)
        even == resize_image_helper(img, rounded[1], rounded[2], filename, files, ok)
        onu == resize_image_helper(img, new_width, new_height, filename, files, ok)
    IN  IF new_width <= 0 /\ new_height <= 0
        THEN IF flags.needs_scaling /\ ((curw % 2) # 0 \/ (curh % 2) # 0)
             THEN [image |-> even.mat, uimage |-> uimg, fs |-> even.fs, ops |-> even.ops,
                   save |-> even.save, wrote |-> even.wrote]
             ELSE skip
        ELSE IF opencl
        THEN [image |-> onu.mat, uimage |-> onu.mat, fs |-> onu.fs, ops |-> onu.ops,
              save |-> onu.save, wrote |-> onu.wrote]
        ELSE [image |-> onu.mat, uimage |-> uimg, fs |-> onu.fs, ops |-> onu.ops,
              save |-> onu.save, wrote |-> onu.wrote]

\* the in_cache flag is not consulted
resize_image_IgnoreInCache(img, uimg, incache, d, filename, files, ok) ==
    resize_miss(img, uimg, d, filename, files, ok)

\* OpencvImage::resize_image
resize_image(img, uimg, incache, d, filename, files, ok) ==
    IF incache
    THEN [image |-> img, uimage |-> uimg, fs |-> files, ops |-> <<>>, save |-> <<>>,
          wrote |-> <<>>]
    ELSE resize_miss(img, uimg, d, filename, files, ok)

\* the cell width is divided by the font height and the cell height by the
\* font width
center_origin_SwappedFont(img, d) ==
    IF flags.origin_center
    THEN [d EXCEPT !.x = @ - FloorHalf(img.cols, d.font_height),
                   !.y = @ - FloorHalf(img.rows, d.font_width)]
    ELSE d

\* process_image: the origin adjustment
center_origin(img, d) ==
    IF flags.origin_center
    THEN [d EXCEPT !.x = @ - FloorHalf(img.cols, d.font_width),
                   !.y = @ - FloorHalf(img.rows, d.font_height)]
    ELSE d

\* process_image: a CV_16U buffer is converted to CV_8U
convert_depth(img) ==
    LET conv8 == [px \in Pixels(img) |-> [k \in 1..Len(px) |-> ConvertTo8(px[k])]]
    IN  IF img.depth = 16 THEN [MapPixels(img, conv8, img.chans) EXCEPT !.depth = 8] ELSE img

\* process_image: a 4-channel buffer is premultiplied
premultiply_alpha(img) ==
    LET premultiplied == [pix \in Pixels(img) |-> Premultiply(pix)]
    IN  IF img.chans = 4 THEN MapPixels(img, premultiplied, 4) ELSE img

\* process_image: the flip of the OpenGL build
opengl_flip(img) ==
    IF flags.use_opengl THEN cv_flip(img, 0) ELSE img

\* process_image: a grayscale buffer is expanded
expand_gray(img) ==
    IF img.chans = 1 THEN cv_cvtColor(img, "COLOR_GRAY2BGRA") ELSE img

\* the sixel branch keeps the alpha channel of a 4-channel buffer
convert_for_output_SixelKeepsAlpha(img) ==
    IF flags.output \in {"x11", "chafa", "wayland"}
    THEN IF img.chans = 3 THEN cv_cvtColor(img, "COLOR_BGR2BGRA") ELSE img
    ELSE IF flags.output = "kitty"
    THEN IF img.chans = 4 THEN cv_cvtColor(img, "COLOR_BGRA2RGBA")
         ELSE cv_cvtColor(img, "COLOR_BGR2RGB")
    ELSE IF flags.output = "sixel"
    THEN IF img.chans = 4 THEN cv_cvtColor(img, "COLOR_BGRA2RGBA")
         ELSE cv_cvtColor(img, "COLOR_BGR2RGB")
    ELSE img

\* process_image: the conversion for the output backend
convert_for_output(img) ==
    IF flags.output \in {"x11", "chafa", "wayland"}
    THEN IF img.chans = 3 THEN cv_cvtColor(img, "COLOR_BGR2BGRA") ELSE img
    ELSE IF flags.output = "kitty"
    THEN IF img.chans = 4 THEN cv_cvtColor(img, "COLOR_BGRA2RGBA")
         ELSE cv_cvtColor(img, "COLOR_BGR2RGB")
    ELSE IF flags.output = "sixel"
    THEN IF img.chans = 4 THEN cv_cvtColor(img, "COLOR_BGRA2RGB")
         ELSE cv_cvtColor(img, "COLOR_BGR2RGB")
    ELSE img

\* OpencvImage::process_image after its call of resize_image
process_image(img, d) ==
    LET out == convert_for_output(expand_gray(opengl_flip(premultiply_alpha(convert_depth(img)))))
    IN  [image |-> out, dims |-> center_origin(img, d),
         size |-> out.rows * out.cols * out.chans * (out.depth \div 8)]

\* ---------------------------------------------------------------- inputs

Outputs == {"x11", "wayland", "chafa", "kitty", "sixel"}

\* a small image whose first row starts and ends with a marked pixel, the two
\* of different values
Marked(w, h, px, m1, m2) ==
    [Solid(w, h, 8, px) EXCEPT !.marks = [rc \in {<<1, 1>>, <<1, w>>} |->
                                              IF rc = <<1, 1>> THEN m1 ELSE m2]]

ColorMats ==
    {Solid(6, 4, 8, px) : px \in {<<200, 100, 50, 128>>, <<255, 1, 254, 255>>, <<90, 60, 30, 0>>,
                                  <<10, 20, 30>>, <<77>>}}
    \cup {Solid(6, 4, 16, px) : px \in {<<65535, 32896, 384, 32768>>, <<65535, 128, 384>>,
                                        <<40000>>}}

MarkedMats ==
    {Marked(3, 2, <<10, 20, 30>>, <<1, 2, 3>>, <<4, 5, 6>>),
     Marked(2, 2, <<0, 0, 0, 255>>, <<9, 9, 9, 128>>, <<7, 7, 7, 64>>),
     Marked(4, 1, <<77>>, <<1>>, <<2>>)}

ExifValues == {<<>>} \cup {<<v>> : v \in 0..9}

\* the second source file
FileB == [mat |-> Solid(7, 4, 8, <<10, 20, 30>>), exif |-> <<>>]

Base ==
    [output |-> "x11", scale_factor |-> 2, no_cache |-> FALSE, origin_center |-> FALSE,
     needs_scaling |-> FALSE, use_opengl |-> FALSE, opencl |-> FALSE,
     mat |-> Solid(101, 100, 8, <<10, 20, 30>>), exif |-> <<>>,
     t1 |-> <<0, 0>>, t2 |-> <<0, 0>>, font |-> <<8, 16>>, origin |-> <<5, 5>>]

\* channel counts, depths and pixel values against every backend
FamColor ==
    {[Base EXCEPT !.output = o, !.mat = m, !.t1 = t] :
        o \in Outputs, m \in ColorMats, t \in {<<0, 0>>, <<4, 2>>}}

\* the even-dimension correction: odd and even sizes against the scale factors
FamEven ==
    {[Base EXCEPT !.scale_factor = sf, !.needs_scaling = n, !.no_cache = nc,
                  !.mat = Solid(w, h, 8, <<10, 20, 30>>)] :
        sf \in 1..MaxScale, n \in BOOLEAN, nc \in BOOLEAN,
        w \in {101, 6, 7, 8}, h \in {100, 9, 4}}

\* origin centering: font cells against image sizes
FamCenter ==
    {[Base EXCEPT !.font = f, !.mat = Solid(g[1], g[2], 8, <<10, 20, 30>>), !.origin = xy,
                  !.origin_center = oc, !.t1 = t, !.t2 = <<33, 50>>] :
        f \in {<<8, 16>>, <<7, 3>>, <<1, 1>>}, g \in {<<80, 160>>, <<101, 100>>, <<7, 4>>},
        xy \in {<<5, 5>>, <<0, -2>>}, oc \in BOOLEAN, t \in {<<0, 0>>, <<40, 80>>}}

\* every orientation value on images whose pixels can be told apart
FamOrient ==
    {[Base EXCEPT !.exif = e, !.mat = m, !.use_opengl = gl] :
        e \in ExifValues, m \in MarkedMats, gl \in BOOLEAN}

\* cache misses and hits: resolved sizes of the two instances, cache on and off
FamCache ==
    {[Base EXCEPT !.t1 = a, !.t2 = b, !.no_cache = nc, !.exif = e, !.opencl = cl,
                  !.mat = Solid(101, 100, 8, px)] :
        a \in {<<0, 0>>, <<40, 80>>, <<20, 40>>}, b \in {<<0, 0>>, <<40, 80>>, <<20, 40>>},
        nc \in BOOLEAN, e \in {<<>>, <<6>>}, cl \in BOOLEAN,
        px \in {<<10, 20, 30>>, <<200, 100, 50, 128>>}}

\* a source that cannot be decoded
FamFail ==
    {[Base EXCEPT !.mat = EmptyMat, !.exif = e, !.origin_center = oc, !.t1 = t] :
        e \in {<<>>, <<6>>}, oc \in BOOLEAN, t \in {<<0, 0>>, <<40, 80>>}}

Scenarios == FamColor \cup FamEven \cup FamCenter \cup FamOrient \cup FamCache \cup FamFail

NoHist ==
    [ops |-> <<>>, decoded |-> EmptyMat, entered |-> EmptyMat, origin |-> <<0, 0>>,
     save |-> <<>>, wrote |-> <<>>, ok |-> <<>>]

Init ==
    \E sc \in Scenarios :
        /\ flags = [output |-> sc.output, scale_factor |-> sc.scale_factor,
                    no_cache |-> sc.no_cache, origin_center |-> sc.origin_center,
                    needs_scaling |-> sc.needs_scaling, use_opengl |-> sc.use_opengl]
        /\ opencl = sc.opencl
        /\ fs = [p \in Paths |-> IF p = "a" THEN [mat |-> sc.mat, exif |-> sc.exif] ELSE FileB]
        /\ dims = [i \in Inst |->
                      [x |-> sc.origin[1], y |-> sc.origin[2],
                       font_width |-> sc.font[1], font_height |-> sc.font[2],
                       target |-> IF i = 1 THEN sc.t1 ELSE sc.t2]]
        /\ pc = [i \in Inst |-> "new"]
        /\ path = [i \in Inst |-> ""]
        /\ in_cache = [i \in Inst |-> FALSE]
        /\ image = [i \in Inst |-> EmptyMat]
        /\ uimage = [i \in Inst |-> EmptyMat]
        /\ size = [i \in Inst |-> 0]
        /\ hist = [i \in Inst |-> NoHist]

\* ---------------------------------------------------------------- actions

\* an empty decode result does not end the construction
OpencvImage_NoThrow(new_dims, filename, incache) ==
    [path |-> filename, in_cache |-> incache, image |-> cv_imread(fs, filename),
     pc |-> "rotate_image"]

\* the member initialisers, cv::imread and the throw of the constructor.  The
\* caller passes a source file, or the cached artifact of one with in_cache set
OpencvImage(new_dims, filename, incache) ==
    LET decoded == cv_imread(fs, filename)
    IN  [path |-> filename, in_cache |-> incache, image |-> decoded,
         pc |-> IF empty(decoded) THEN "failed" ELSE "rotate_image"]

Construct(i) ==
    /\ pc[i] = "new"
    /\ \E filename \in DOMAIN fs :
        LET new == OpencvImage(dims[i], filename, filename \notin Paths)
        IN  /\ path' = [path EXCEPT ![i] = new.path]
            /\ in_cache' = [in_cache EXCEPT ![i] = new.in_cache]
            /\ image' = [image EXCEPT ![i] = new.image]
            /\ pc' = [pc EXCEPT ![i] = new.pc]
            /\ hist' = [hist EXCEPT ![i].decoded = new.image,
                                    ![i].origin = <<dims[i].x, dims[i].y>>]
    /\ UNCHANGED <<flags, opencl, fs, dims, uimage, size>>

RotateImage(i) ==
    /\ pc[i] = "rotate_image"
    /\ LET r == rotate_image(image[i], fs, path[i])
       IN  /\ image' = [image EXCEPT ![i] = r.image]
           /\ hist' = [hist EXCEPT ![i].ops = @ \o r.ops, ![i].entered = r.image]
    /\ pc' = [pc EXCEPT ![i] = "resize_image"]
    /\ UNCHANGED <<flags, opencl, fs, dims, path, in_cache, uimage, size>>

ResizeImage(i) ==
    /\ pc[i] = "resize_image"
    /\ \E ok \in BOOLEAN :
        LET r == resize_image(image[i], uimage[i], in_cache[i], dims[i], path[i], fs, ok)
        IN  /\ Len(r.save) = 0 => ok
            /\ image' = [image EXCEPT ![i] = r.image]
            /\ uimage' = [uimage EXCEPT ![i] = r.uimage]
            /\ fs' = r.fs
            /\ hist' = [hist EXCEPT ![i].ops = @ \o r.ops, ![i].save = r.save,
                                    ![i].wrote = r.wrote,
                                    ![i].ok = IF Len(r.save) = 0 THEN <<>> ELSE <<ok>>]
    /\ pc' = [pc EXCEPT ![i] = "process_image"]
    /\ UNCHANGED <<flags, opencl, dims, path, in_cache, size>>

ProcessImage(i) ==
    /\ pc[i] = "process_image"
    /\ LET r == process_image(image[i], dims[i])
       IN  /\ image' = [image EXCEPT ![i] = r.image]
           /\ dims' = [dims EXCEPT ![i] = r.dims]
           /\ size' = [size EXCEPT ![i] = r.size]
    /\ pc' = [pc EXCEPT ![i] = "done"]
    /\ UNCHANGED <<flags, opencl, fs, path, in_cache, uimage, hist>>

Next ==
    \E i \in Inst :
        \/ Construct(i)
        \/ RotateImage(i)
        \/ ResizeImage(i)
        \/ ProcessImage(i)

Spec == Init /\ [][Next]_vars

\* ---------------------------------------------------------------- properties

Started(i) == pc[i] \notin {"new", "failed"}

Resized(i) == pc[i] \in {"process_image", "done"}

\* the run of instance i took the degenerate-size path of a cache miss with
\* the needs-even-dimensions flag set
DegenerateEven(i) ==
    /\ Resized(i)
    /\ ~in_cache[i]
    /\ get_new_sizes(dims[i])[1] <= 0
    /\ get_new_sizes(dims[i])[2] <= 0
    /\ flags.needs_scaling

\* n is the smallest multiple of m that is not less than k
SmallestMultiple(n, m, k) == n % m = 0 /\ n >= k /\ n - k < m

\* the model resizes solid images only: a buffer with marked pixels is never
\* given a new size
ResizeModelled ==
    \A i \in Inst :
        Resized(i) /\ DOMAIN hist[i].entered.marks # {} =>
            /\ hist[i].entered.cols = image[i].cols
            /\ hist[i].entered.rows = image[i].rows

\* C1: after the pipeline completes the channel count is 4 for x11, wayland
\* and chafa; for kitty 3 when the decoded buffer has 3 channels and 4 when it
\* has 4 or 1 (grayscale is expanded first); 3 for sixel whatever the input
C1_ChannelMatrix ==
    \A i \in Inst :
        pc[i] = "done" /\ hist[i].decoded.chans \in {1, 3, 4} =>
            image[i].chans =
                CASE flags.output \in {"x11", "wayland", "chafa"} -> 4
                  [] flags.output = "kitty" -> IF hist[i].decoded.chans = 3 THEN 3 ELSE 4
                  [] flags.output = "sixel" -> 3

C1_Witness ==
    \E i \in Inst :
        /\ pc[i] = "done"
        /\ flags.output = "sixel"
        /\ hist[i].decoded.chans = 4
        /\ image[i].chans = 3

\* the 8 bit value of a decoded sample
Sample8(mat, k) == IF mat.depth = 16 THEN ConvertTo8(mat.bg[k]) ELSE mat.bg[k]

\* C2: in every run on a 4-channel image each colour channel of the result is
\* (decoded value * alpha) div 255 and alpha is unchanged where the backend
\* keeps it; a run that loads a cached artifact decodes the pixels the run that
\* wrote it had before premultiplication, so they are premultiplied once
C2_PremultipliedOnce ==
    \A i \in Inst :
        pc[i] = "done" /\ hist[i].decoded.chans = 4 =>
            LET d == hist[i].decoded
                alpha == Sample8(d, 4)
                b == (Sample8(d, 1) * alpha) \div 255
                g == (Sample8(d, 2) * alpha) \div 255
                r == (Sample8(d, 3) * alpha) \div 255
            IN  /\ image[i].bg =
                       CASE flags.output \in {"x11", "wayland", "chafa"} -> <<b, g, r, alpha>>
                         [] flags.output = "kitty" -> <<r, g, b, alpha>>
                         [] flags.output = "sixel" -> <<r, g, b>>
                /\ in_cache[i] =>
                       \E j \in Inst \ {i} :
                           /\ hist[j].wrote # <<>>
                           /\ hist[j].wrote[1].loc = path[i]
                           /\ hist[j].decoded.bg = d.bg
                           /\ hist[j].decoded.depth = d.depth

C2_Witness ==
    \E i \in Inst :
        /\ pc[i] = "done"
        /\ in_cache[i]
        /\ hist[i].decoded.bg = <<200, 100, 50, 128>>
        /\ image[i].bg = <<100, 50, 25, 128>>

\* C3 as stated: on the degenerate path with an odd dimension each odd
\* dimension becomes the smallest multiple of the scale factor not less than
\* it, an even dimension is left as it is, and no library resize call is made
C3_Original ==
    \A i \in Inst :
        LET e == hist[i].entered
        IN  DegenerateEven(i) /\ (e.cols % 2 # 0 \/ e.rows % 2 # 0) =>
                /\ IF e.cols % 2 # 0
                   THEN SmallestMultiple(image[i].cols, flags.scale_factor, e.cols)
                   ELSE image[i].cols = e.cols
                /\ IF e.rows % 2 # 0
                   THEN SmallestMultiple(image[i].rows, flags.scale_factor, e.rows)
                   ELSE image[i].rows = e.rows
                /\ \A k \in 1..Len(hist[i].ops) : hist[i].ops[k] # "resize"

\* C3 as amended: on the degenerate path with an odd dimension one library
\* resize call gives the image the size whose width and height are the
\* smallest multiples of the scale factor not less than the current width and
\* height (followed by the cache write when caching is enabled); a dimension is
\* left as it is exactly when it is a multiple of the scale factor
C3_EvenByResize ==
    \A i \in Inst :
        LET e == hist[i].entered
            calls == SubSeq(hist[i].ops, Len(hist[i].ops) - (IF flags.no_cache THEN 0 ELSE 1),
                            Len(hist[i].ops))
        IN  DegenerateEven(i) /\ (e.cols % 2 # 0 \/ e.rows % 2 # 0) =>
                /\ SmallestMultiple(image[i].cols, flags.scale_factor, e.cols)
                /\ SmallestMultiple(image[i].rows, flags.scale_factor, e.rows)
                /\ image[i].cols = e.cols <=> e.cols % flags.scale_factor = 0
                /\ image[i].rows = e.rows <=> e.rows % flags.scale_factor = 0
                /\ calls = IF flags.no_cache THEN <<"resize">> ELSE <<"resize", "imwrite">>
                /\ Cardinality({k \in 1..Len(hist[i].ops) : hist[i].ops[k] = "resize"}) = 1

\* an even height that is no multiple of the scale factor is rounded with the
\* odd width
C3_Witness ==
    \E i \in Inst :
        /\ DegenerateEven(i)
        /\ flags.scale_factor = 4
        /\ hist[i].entered.cols = 101 /\ hist[i].entered.rows = 100
        /\ image[i].cols = 104 /\ image[i].rows = 100
        /\ \E j \in Inst : DegenerateEven(j) /\ hist[j].entered.cols = 7
                           /\ hist[j].entered.rows = 4 /\ image[j].cols = 8

\* C4 as stated: two runs over the same source path that resolve to
\* different sizes write their artifacts to different cache paths
C4_Original ==
    \A i, j \in Inst :
        /\ i # j
        /\ hist[i].save # <<>> /\ hist[j].save # <<>>
        /\ path[i] = path[j]
        /\ <<hist[i].save[1].w, hist[i].save[1].h>> # <<hist[j].save[1].w, hist[j].save[1].h>>
        => hist[i].save[1].loc # hist[j].save[1].loc

\* C4 as amended: a cache entry is identified by the source path alone: two
\* runs over the same source path write their artifacts to the same cache
\* path, also when they resolve to different sizes, and the file at that path
\* holds the artifact of one of them only
C4_KeyedByPath ==
    \A i, j \in Inst :
        i # j /\ hist[i].save # <<>> /\ hist[j].save # <<>> /\ path[i] = path[j] =>
            /\ hist[i].save[1].loc = hist[j].save[1].loc
            /\ hist[i].wrote # <<>> =>
                   /\ hist[i].wrote[1].loc \in DOMAIN fs
                   /\ \E k \in {i, j} :
                          /\ hist[k].wrote # <<>>
                          /\ fs[hist[i].wrote[1].loc].mat.cols = hist[k].wrote[1].w
                          /\ fs[hist[i].wrote[1].loc].mat.rows = hist[k].wrote[1].h

\* both runs wrote, at different sizes, and the artifact of instance 1 is gone
C4_Witness ==
    /\ path[1] = "a" /\ path[2] = "a"
    /\ hist[1].wrote # <<>> /\ hist[2].wrote # <<>>
    /\ hist[1].wrote[1].w = 40 /\ hist[2].wrote[1].w = 20
    /\ hist[1].wrote[1].loc = hist[2].wrote[1].loc
    /\ fs[hist[1].wrote[1].loc].mat.cols = 20

\* C5: a run that loads the artifact a cache-miss run wrote after resizing to
\* (W, H), with the in-cache flag set, makes no resize call and no cache write
\* and finishes with width W and height H
C5_CacheRoundTrip ==
    \A i \in Inst :
        pc[i] = "done" /\ in_cache[i] =>
            /\ \A k \in 1..Len(hist[i].ops) : hist[i].ops[k] \notin {"resize", "imwrite"}
            /\ hist[i].save = <<>>
            /\ \E j \in Inst \ {i} :
                   /\ hist[j].wrote # <<>>
                   /\ hist[j].wrote[1].loc = path[i]
                   /\ image[i].cols = hist[j].wrote[1].w
                   /\ image[i].rows = hist[j].wrote[1].h

\* the miss run rotated the source and resized it to 40 x 80; the hit run has
\* its own, different, resolved size
C5_Witness ==
    \E i \in Inst :
        /\ pc[i] = "done" /\ in_cache[i]
        /\ get_new_sizes(dims[i]) = <<20, 40>>
        /\ image[i].cols = 40 /\ image[i].rows = 80
        /\ \E j \in Inst \ {i} : hist[j].ops = <<"rotate cw", "resize", "imwrite">>

\* the run of instance i repeated from the entry of resize_image with a cache
\* write that succeeds
WithWrite(i) ==
    LET r == resize_image(hist[i].entered, EmptyMat, in_cache[i], dims[i], path[i], fs, TRUE)
        d0 == [dims[i] EXCEPT !.x = hist[i].origin[1], !.y = hist[i].origin[2]]
    IN  [resized |-> r.image, final |-> process_image(r.image, d0)]

\* C6: a run whose cache write fails is not ended by it, keeps the resized
\* buffer, and exposes the width, height, channel count, byte size and pixels
\* (and the origin) of the run on the same input whose cache write succeeds
C6_WriteFailureNotFatal ==
    \A i \in Inst :
        hist[i].ok = <<FALSE>> =>
            /\ pc[i] \in {"process_image", "done"}
            /\ pc[i] = "process_image" => image[i] = WithWrite(i).resized
            /\ pc[i] = "done" =>
                   /\ image[i] = WithWrite(i).final.image
                   /\ size[i] = WithWrite(i).final.size
                   /\ dims[i] = WithWrite(i).final.dims

C6_Witness ==
    \E i \in Inst :
        /\ pc[i] = "done"
        /\ hist[i].ok = <<FALSE>>
        /\ hist[i].entered.cols = 101
        /\ image[i].cols = 40
        /\ image[i].chans = 4

\* C7: when the decode result is empty the construction fails and no later
\* stage runs: no library call, no cache write, no change of the origin, and
\* the instance never becomes usable
C7_DecodeFailure ==
    \A i \in Inst :
        pc[i] # "new" /\ empty(hist[i].decoded) =>
            /\ pc[i] = "failed"
            /\ hist[i].ops = <<>>
            /\ hist[i].save = <<>>
            /\ <<dims[i].x, dims[i].y>> = hist[i].origin
            /\ size[i] = 0

C7_Witness ==
    \E i \in Inst :
        /\ pc[i] = "failed"
        /\ read_exif_rotation(fs, path[i]) = <<6>>
        /\ flags.origin_center
        /\ \E j \in Inst \ {i} : pc[j] = "done"

\* C8: with centering enabled one run moves the origin to
\* x - floor((W / font_width) / 2), y - floor((H / font_height) / 2), W and H
\* the width and height after the resize stage; with centering disabled the
\* origin is left unchanged
C8_OriginCentering ==
    \A i \in Inst :
        LET dx == hist[i].origin[1] - dims[i].x
            dy == hist[i].origin[2] - dims[i].y
            W == image[i].cols
            H == image[i].rows
        IN  /\ pc[i] \in {"rotate_image", "resize_image", "process_image"} => dx = 0 /\ dy = 0
            /\ pc[i] = "done" =>
                   IF flags.origin_center
                   THEN /\ 2 * dims[i].font_width * dx <= W
                        /\ W < 2 * dims[i].font_width * (dx + 1)
                        /\ 2 * dims[i].font_height * dy <= H
                        /\ H < 2 * dims[i].font_height * (dy + 1)
                        /\ dx = (W \div dims[i].font_width) \div 2
                        /\ dy = (H \div dims[i].font_height) \div 2
                   ELSE dx = 0 /\ dy = 0

\* font (8, 16), image (80, 160), origin (5, 5) gives (0, 0)
C8_Witness ==
    \E i \in Inst :
        /\ pc[i] = "done"
        /\ flags.origin_center
        /\ dims[i].font_width = 8 /\ dims[i].font_height = 16
        /\ image[i].cols = 80 /\ image[i].rows = 160
        /\ hist[i].origin = <<5, 5>>
        /\ dims[i].x = 0 /\ dims[i].y = 0

\* res is src with the pixel at rc taken from the pixel of src at from[rc];
\* turned: the width and height are exchanged
Transformed(res, src, from, turned) ==
    /\ res.cols = IF turned THEN src.rows ELSE src.cols
    /\ res.rows = IF turned THEN src.cols ELSE src.rows
    /\ res.chans = src.chans /\ res.depth = src.depth /\ res.bg = src.bg
    /\ IF DOMAIN src.marks = {}
       THEN DOMAIN res.marks = {}
       ELSE \A r \in 1..res.rows, c \in 1..res.cols :
                PixelAt(res, r, c) = PixelAt(src, from[<<r, c>>][1], from[<<r, c>>][2])

\* the table of the orientation values: res is src transformed as value says
AsTable(res, src, value) ==
    LET Upright == (1..src.rows) \X (1..src.cols)
        Turned == (1..src.cols) \X (1..src.rows)
        same == [rc \in Upright |-> rc]
        hflip == [rc \in Upright |-> <<rc[1], src.cols + 1 - rc[2]>>]
        vflip == [rc \in Upright |-> <<src.rows + 1 - rc[1], rc[2]>>]
        both == [rc \in Upright |-> <<src.rows + 1 - rc[1], src.cols + 1 - rc[2]>>]
        cw == [rc \in Turned |-> <<src.rows + 1 - rc[2], rc[1]>>]
        ccw == [rc \in Turned |-> <<rc[2], src.cols + 1 - rc[1]>>]
        cw_hflip == [rc \in Turned |-> <<rc[2], rc[1]>>]
        ccw_hflip == [rc \in Turned |-> <<src.rows + 1 - rc[2], src.cols + 1 - rc[1]>>]
    IN  CASE value = 2 -> Transformed(res, src, hflip, FALSE)
          [] value = 3 -> Transformed(res, src, both, FALSE)
          [] value = 4 -> Transformed(res, src, vflip, FALSE)
          [] value = 5 -> Transformed(res, src, cw_hflip, TRUE)
          [] value = 6 -> Transformed(res, src, cw, TRUE)
          [] value = 7 -> Transformed(res, src, ccw_hflip, TRUE)
          [] value = 8 -> Transformed(res, src, ccw, TRUE)
          [] OTHER -> Transformed(res, src, same, FALSE)

\* a file system whose one file carries the orientation value
Tagged(value) == [f \in {"tagged"} |-> [mat |-> EmptyMat, exif |-> <<value>>]]

\* C9: rotate_image transforms the buffer as the table says for the
\* orientation value of the file (no value, 1 and every other value leave it
\* unchanged), and on every decoded buffer orientation 3 gives what
\* orientation 2 followed by orientation 4 gives
C9_OrientationTable ==
    \A i \in Inst :
        /\ pc[i] = "resize_image" =>
               LET rotation == read_exif_rotation(fs, path[i])
               IN  IF rotation = <<>>
                   THEN image[i] = hist[i].decoded /\ hist[i].ops = <<>>
                   ELSE /\ AsTable(image[i], hist[i].decoded, rotation[1])
                        /\ rotation[1] \notin 2..8 => image[i] = hist[i].decoded
        /\ Started(i) =>
               rotate_image(hist[i].decoded, Tagged(3), "tagged").image =
                   rotate_image(rotate_image(hist[i].decoded, Tagged(2), "tagged").image,
                                Tagged(4), "tagged").image

\* orientation 5 on the 3 x 2 image: the marked pixels of the first row are in
\* the first column of the 2 x 3 result
C9_Witness ==
    \E i \in Inst :
        /\ pc[i] = "resize_image"
        /\ read_exif_rotation(fs, path[i]) = <<5>>
        /\ hist[i].decoded.cols = 3 /\ hist[i].decoded.rows = 2
        /\ image[i].cols = 2 /\ image[i].rows = 3
        /\ PixelAt(image[i], 1, 1) = <<1, 2, 3>>
        /\ PixelAt(image[i], 3, 1) = <<4, 5, 6>>

\* C10 as stated: whenever a cache-miss run with the needs-even-dimensions
\* flag set takes the degenerate-size path, the width and height at the end of
\* the run are both even
C10_EvenAtEnd ==
    \A i \in Inst :
        DegenerateEven(i) /\ pc[i] = "done" =>
            image[i].cols % 2 = 0 /\ image[i].rows % 2 = 0

====
